---- MODULE Spec2Model ----
(***************************************************************************)
(* A model of the Sequitur G2P wrapper (main.py, conf.py): the n-best      *)
(* collection loop of predict, get_phones, and the batch driver g2p_file   *)
(* with its pool of worker processes.                                      *)
(*                                                                         *)
(* Conventions.  A Python str that the code takes apart (an input line, a  *)
(* word) is a sequence of one-character strings; a str that the code only  *)
(* builds (a pronunciation, an output line) is a TLA+ string.  Posteriors  *)
(* and variants_mass are in thousandths (1000 is 1.0).  Log-likelihoods    *)
(* are integers on the natural-log scale.                                  *)
(***************************************************************************)
EXTENDS Integers, Sequences, FiniteSets, TLC

(* ------------------------------ bounds -------------------------------- *)

\* The longest batch file, in lines.
MaxLines == 2
\* The largest n_jobs.
MaxJobs == 2
\* The longest explicit candidate list of one search.
MaxCands == 2

(* ---------------------------- conf.py --------------------------------- *)

VARIANTS_NUMBER == 4
\* 0.9, in thousandths.
VARIANTS_MASS == 900
SEQUITUR_MDL_PATH == "data/ipd_clean_slt2018.mdl"
ICE_ALPHABET ==
    {"a", "á", "b", "d", "ð", "e", "é", "f", "g", "h", "i", "í", "j", "k",
     "l", "m", "n", "o", "ó", "p", "r", "s", "t", "u", "ú", "v", "x", "y",
     "ý", "þ", "æ", "ö"}

None == "None"

(* --------------------------- pure helpers ----------------------------- *)

Whitespace == {" ", "\t", "\n"}

\* str.lower(), on the characters the input lines use.
Lower(c) ==
    CASE c = "H" -> "h"
      [] c = "K" -> "k"
      [] c = "Ú" -> "ú"
      [] OTHER -> c

RECURSIVE LStrip(_)
LStrip(s) ==
    IF s # <<>> /\ Head(s) \in Whitespace THEN LStrip(Tail(s)) ELSE s

RECURSIVE RStrip(_)
RStrip(s) ==
    IF s # <<>> /\ s[Len(s)] \in Whitespace
    THEN RStrip(SubSeq(s, 1, Len(s) - 1))
    ELSE s

\* str.strip()
Strip(s) == RStrip(LStrip(s))

\* str.split(): the maximal runs of non-whitespace characters, in order.
RECURSIVE SplitFrom(_, _, _)
SplitFrom(s, cur, acc) ==
    IF s = <<>>
    THEN IF cur = <<>> THEN acc ELSE Append(acc, cur)
    ELSE IF Head(s) \in Whitespace
         THEN SplitFrom(Tail(s), <<>>,
                        IF cur = <<>> THEN acc ELSE Append(acc, cur))
         ELSE SplitFrom(Tail(s), Append(cur, Head(s)), acc)

Split(s) == SplitFrom(s, <<>>, <<>>)

\* "".join(chars): a character sequence as a string.
RECURSIVE Str(_)
Str(s) == IF s = <<>> THEN "" ELSE Head(s) \o Str(Tail(s))

\* sep.join(strs)
RECURSIVE Join(_, _)
Join(sep, strs) ==
    IF strs = <<>> THEN ""
    ELSE IF Len(strs) = 1 THEN strs[1]
    ELSE strs[1] \o sep \o Join(sep, Tail(strs))

RECURSIVE Filter(_, _)
Filter(s, keep) ==
    IF s = <<>> THEN <<>>
    ELSE IF Head(s) \in keep
         THEN <<Head(s)>> \o Filter(Tail(s), keep)
         ELSE Filter(Tail(s), keep)

\* normalize_word: lowercase, then drop every character outside the alphabet.
normalize_word(word) ==
    Filter([k \in 1..Len(word) |-> Lower(word[k])], ICE_ALPHABET)

\* math.exp(d) in thousandths, for the log-likelihood differences in use.
exp(d) ==
    CASE d = 0 -> 1000
      [] d = -1 -> 368
      [] d = -2 -> 135
      [] d = -3 -> 50
      [] d = -4 -> 18
      [] OTHER -> 0

(* ------------------------------ Options ------------------------------- *)

\* Options.__init__
Options(modelFile, variants_number, variants_mass) ==
    [modelFile |-> modelFile, encoding |-> "UTF-8",
     variants_number |-> variants_number, variants_mass |-> variants_mass]

\* translator_options=None, and the globals before their first assignment.
NoOptions ==
    [modelFile |-> None, encoding |-> None,
     variants_number |-> 0, variants_mass |-> 0]

\* Options(modelFile=os.getenv("G2P_MODEL", SEQUITUR_MDL_PATH))
DefaultOptions == Options(SEQUITUR_MDL_PATH, VARIANTS_NUMBER, VARIANTS_MASS)

(* ---------------- the search collaborator (g2p.Translator) ------------ *)

\* The log-likelihoods a search reports.
LogLiks == {-2, -1}

NonIncreasing(s) == \A k \in 1..(Len(s) - 1) : s[k] >= s[k + 1]

\* What one search can do: fail at nBestInit, or enumerate candidates
\* best-first (log-likelihoods lls, none above logLikTotal) and then end by
\* StopIteration, by TranslationFailure, or go on yielding candidates with
\* the last log-likelihood ("more": a list longer than any bound of predict).
Searches ==
    {[logLikTotal |-> -1, lls |-> <<>>, ending |-> "InitFailure"]}
    \cup
    {[logLikTotal |-> t, lls |-> s, ending |-> e] :
        t \in LogLiks,
        s \in {c \in UNION {[1..n -> LogLiks] : n \in 0..MaxCands} :
                 NonIncreasing(c)},
        e \in {"StopIteration", "TranslationFailure", "more"}}

SearchSet ==
    {s \in Searches :
        /\ \A k \in 1..Len(s.lls) : s.lls[k] <= s.logLikTotal
        /\ s.ending = "more" => s.lls # <<>>}

\* The searches of the words of a batch file: one that fails at nBestInit
\* and one with two candidates of posterior exp(-1) each.
BatchSearchSet ==
    {[logLikTotal |-> -1, lls |-> <<>>, ending |-> "InitFailure"],
     [logLikTotal |-> -1, lls |-> <<-2, -2>>, ending |-> "StopIteration"]}

\* The phonemes of the rank-th candidate for the graphemes left: the model
\* maps a word to distinct ranked sequences.
Phonemes(left, rank) ==
    IF rank = 1 THEN left
    ELSE SubSeq(left, 1, Len(left) - 1) \o <<"p">>
         \o [j \in 1..(rank - 2) |-> ":"]

NoSearch ==
    [left |-> <<>>, logLikTotal |-> 0, lls |-> <<>>, ending |-> "none",
     pos |-> 0]

\* TRANSLATOR.nBestInit(left), for the search s the model runs on left.
nBestInit(left, s) ==
    IF s.ending = "InitFailure"
    THEN [raised |-> "TranslationFailure", n_best |-> NoSearch]
    ELSE [raised |-> None,
          n_best |-> [left |-> left, logLikTotal |-> s.logLikTotal,
                      lls |-> s.lls, ending |-> s.ending, pos |-> 0]]

\* TRANSLATOR.nBestNext(n_best): the next candidate, or the exception raised.
nBestNext(nb) ==
    IF nb.pos < Len(nb.lls) \/ nb.ending = "more"
    THEN [raised |-> None,
          log_like |-> nb.lls[IF nb.pos < Len(nb.lls)
                              THEN nb.pos + 1 ELSE Len(nb.lls)],
          result |-> Phonemes(nb.left, nb.pos + 1),
          n_best |-> [nb EXCEPT !.pos = nb.pos + 1]]
    ELSE [raised |-> nb.ending, log_like |-> 0, result |-> <<>>,
          n_best |-> nb]

(* ------------------------------- inputs ------------------------------- *)

\* The input lines: one word; two words, one of them losing characters to
\* normalize_word.
LineSet ==
    {<<"k", "a", "b", "\n">>,
     <<" ", "H", "ú", "s", "!", " ", "x", "7", "\n">>}

\* The utterances a caller passes to get_phones: a line, or a blank one.
UttSet == LineSet \cup {<<"\n">>}

\* The translator_options a caller passes to get_phones, and to g2p_file.
OptionSet ==
    {NoOptions,
     Options("custom.mdl", 1, VARIANTS_MASS),
     Options("custom.mdl", VARIANTS_NUMBER, 500)}

BatchOptionSet == {NoOptions, Options("custom.mdl", 1, VARIANTS_MASS)}

Main == 0
Workers == 1..MaxJobs
Procs == {Main} \cup Workers

\* The calls: get_phones(utt, translator_options) in the calling process, or
\* g2p_file(src_path, out_path, n_jobs, translator_options).
Calls ==
    {[fn |-> "get_phones", src |-> <<u>>, n_jobs |-> 0,
      translator_options |-> o] : u \in UttSet, o \in OptionSet}
    \cup
    {[fn |-> "g2p_file", src |-> f, n_jobs |-> n, translator_options |-> o] :
        f \in UNION {[1..n -> LineSet] : n \in 0..MaxLines},
        n \in 1..MaxJobs, o \in BatchOptionSet}

(* ------------------------------- state -------------------------------- *)

VARIABLES
    call,                \* the call being run
    mpc,                 \* where the calling process is in it
    ret,                 \* what get_phones returned to the caller
    TRANSLATOR_OPTIONS,  \* the global, one per process
    model,               \* the loaded model: its search for each word asked
    pc,                  \* per process: where it is in get_phones/predict
    words,               \* get_phones: words
    i,                   \* predict: index of word in words
    output,              \* predict: output
    n_best,              \* predict: n_best
    total_posterior,     \* predict: total_posterior
    n_variants,          \* predict: n_variants
    stop,                \* predict: the exit the collection for word took
    predictions,         \* get_phones: the records predict has yielded
    task,                \* per worker: the future it is running
    futures,             \* g2p_file: futures, with the executor's view
    overtaken,           \* whether a future finished before an earlier one
    results,             \* g2p_file: results
    out_file             \* out_path: whether opened for writing, its lines

globals == <<TRANSLATOR_OPTIONS, model>>
locals == <<pc, words, i, output, n_best, total_posterior, n_variants, stop,
            predictions>>
batch == <<task, futures, overtaken, results, out_file>>
vars == <<call, mpc, ret, globals, locals, batch>>

NoOutput == [word |-> <<>>, results |-> <<>>]

\* The words of the utterances, as get_phones hands them to predict.
WordSet ==
    UNION {{normalize_word(Split(Strip(u))[k]) :
               k \in 1..Len(Split(Strip(u)))} : u \in UttSet}

\* The model has not been asked for the word yet.
Unasked == [logLikTotal |-> -1, lls |-> <<>>, ending |-> "unasked"]

\* get_phones has not returned.
NoReturn == [raised |-> None, value |-> <<>>]

Init ==
    /\ call \in Calls
    /\ mpc = "start"
    /\ ret = NoReturn
    /\ TRANSLATOR_OPTIONS = [p \in Procs |-> NoOptions]
    /\ model = [w \in WordSet |-> Unasked]
    /\ pc = [p \in Procs |-> "idle"]
    /\ words = [p \in Procs |-> <<>>]
    /\ i = [p \in Procs |-> 0]
    /\ output = [p \in Procs |-> NoOutput]
    /\ n_best = [p \in Procs |-> NoSearch]
    /\ total_posterior = [p \in Procs |-> 0]
    /\ n_variants = [p \in Procs |-> 0]
    /\ stop = [p \in Procs |-> "none"]
    /\ predictions = [p \in Procs |-> <<>>]
    /\ task = [p \in Procs |-> 0]
    /\ futures = <<>>
    /\ overtaken = FALSE
    /\ results = <<>>
    /\ out_file = [opened |-> FALSE, lines |-> <<>>]

(* ------------------------------ predict ------------------------------- *)

\* The searches the loaded model can run for a word: the one it ran before,
\* if it was asked before (every process loads the same model, and a model
\* maps a word to one ranked list).  Else any, for a call of get_phones;
\* for the words of a batch, the two that the batch driver can tell apart
\* (no hypothesis, or a first one and a lower-ranked).
SearchChoices(word) ==
    IF model[word] # Unasked THEN {model[word]}
    ELSE IF call.fn = "get_phones" THEN SearchSet ELSE BatchSearchSet

\* The options in effect in process p.
Opt(p) == TRANSLATOR_OPTIONS[p]

\* Mutant: the count test lets one retrieval too many through.
LoopCondition_CountOffByOne(p) ==
    /\ total_posterior[p] < Opt(p).variants_mass
    /\ n_variants[p] <= Opt(p).variants_number

\* Mutant: the mass test is missing.
LoopCondition_NoMassTest(p) ==
    n_variants[p] < Opt(p).variants_number

\* while total_posterior < variants_mass and n_variants < variants_number
LoopCondition(p) ==
    /\ total_posterior[p] < Opt(p).variants_mass
    /\ n_variants[p] < Opt(p).variants_number

\* Mutant: the posterior is not taken relative to logLikTotal.
Posterior_Absolute(log_like, nb) == exp(log_like)

\* math.exp(log_like - n_best.logLikTotal)
Posterior(log_like, nb) == exp(log_like - nb.logLikTotal)

\* Mutant: the failure is not caught.
OnTranslationFailure_Propagates(out) == [pc |-> "raised", output |-> out]

\* Mutant: the handler starts the record over.
OnTranslationFailure_Resets(out) ==
    [pc |-> "yield", output |-> [out EXCEPT !.results = <<>>]]

\* except TRANSLATOR.TranslationFailure: pass -- then yield output
OnTranslationFailure(out) == [pc |-> "yield", output |-> out]

\* Mutant: StopIteration is swallowed and the loop goes on.
OnStopIteration_Continues == "loop"

\* except StopIteration: break
OnStopIteration == "yield"

\* for word in words: ... n_best = TRANSLATOR.nBestInit(left)
PredictInit(p) ==
    /\ pc[p] = "word"
    /\ \E s \in SearchChoices(words[p][i[p]]) :
         LET word == words[p][i[p]]
             out == [word |-> word, results |-> <<>>]
             r == nBestInit(word, s)
             f == OnTranslationFailure(out)
         IN  /\ model' = [model EXCEPT ![word] = s]
             /\ total_posterior' = [total_posterior EXCEPT ![p] = 0]
             /\ n_variants' = [n_variants EXCEPT ![p] = 0]
             /\ IF r.raised = "TranslationFailure"
                THEN /\ pc' = [pc EXCEPT ![p] = f.pc]
                     /\ output' = [output EXCEPT ![p] = f.output]
                     /\ stop' = [stop EXCEPT ![p] = "init_failure"]
                     /\ n_best' = [n_best EXCEPT ![p] = NoSearch]
                ELSE /\ pc' = [pc EXCEPT ![p] = "loop"]
                     /\ output' = [output EXCEPT ![p] = out]
                     /\ stop' = [stop EXCEPT ![p] = "none"]
                     /\ n_best' = [n_best EXCEPT ![p] = r.n_best]
    /\ UNCHANGED <<call, mpc, ret, TRANSLATOR_OPTIONS, words, i, predictions,
                   batch>>

\* One test of the while condition and, when it holds, one pass of the body.
PredictLoop(p) ==
    /\ pc[p] = "loop"
    /\ IF ~LoopCondition(p)
       THEN /\ pc' = [pc EXCEPT ![p] = "yield"]
            /\ stop' = [stop EXCEPT ![p] =
                  IF total_posterior[p] >= Opt(p).variants_mass
                  THEN "mass" ELSE "number"]
            /\ UNCHANGED <<output, n_best, total_posterior, n_variants>>
       ELSE LET r == nBestNext(n_best[p]) IN
            CASE r.raised = "StopIteration" ->
                   /\ pc' = [pc EXCEPT ![p] = OnStopIteration]
                   /\ stop' = [stop EXCEPT ![p] = "exhausted"]
                   /\ UNCHANGED <<output, n_best, total_posterior,
                                  n_variants>>
              [] r.raised = "TranslationFailure" ->
                   LET f == OnTranslationFailure(output[p]) IN
                   /\ pc' = [pc EXCEPT ![p] = f.pc]
                   /\ output' = [output EXCEPT ![p] = f.output]
                   /\ stop' = [stop EXCEPT ![p] = "failure"]
                   /\ UNCHANGED <<n_best, total_posterior, n_variants>>
              [] OTHER ->
                   LET posterior == Posterior(r.log_like, r.n_best) IN
                   /\ output' = [output EXCEPT ![p].results =
                         Append(@, [posterior |-> posterior,
                                    pronunciation |-> Join(" ", r.result)])]
                   /\ total_posterior' =
                         [total_posterior EXCEPT ![p] = @ + posterior]
                   /\ n_variants' = [n_variants EXCEPT ![p] = @ + 1]
                   /\ n_best' = [n_best EXCEPT ![p] = r.n_best]
                   /\ UNCHANGED <<pc, stop>>
    /\ UNCHANGED <<call, mpc, ret, globals, words, i, predictions, batch>>

\* yield output: list(predict(words)) takes the record and asks for the next.
PredictYield(p) ==
    /\ pc[p] = "yield"
    /\ predictions' = [predictions EXCEPT ![p] = Append(@, output[p])]
    /\ IF i[p] < Len(words[p])
       THEN /\ i' = [i EXCEPT ![p] = @ + 1]
            /\ pc' = [pc EXCEPT ![p] = "word"]
       ELSE /\ pc' = [pc EXCEPT ![p] = "phones"]
            /\ UNCHANGED i
    /\ UNCHANGED <<call, mpc, ret, globals, words, output, n_best,
                   total_posterior, n_variants, stop, batch>>

(* ----------------------------- get_phones ----------------------------- *)

\* The globals as get_phones and g2p_file set them from translator_options.
SetGlobals(translator_options) ==
    IF translator_options = NoOptions
    THEN DefaultOptions
    ELSE translator_options

\* get_phones(utt, translator_options) up to the call of predict.
GetPhonesEnter(p, utt, translator_options) ==
    LET ws == [k \in 1..Len(Split(Strip(utt))) |->
                  normalize_word(Split(Strip(utt))[k])]
    IN  /\ TRANSLATOR_OPTIONS' =
              [TRANSLATOR_OPTIONS EXCEPT ![p] = SetGlobals(translator_options)]
        /\ words' = [words EXCEPT ![p] = ws]
        /\ predictions' = [predictions EXCEPT ![p] = <<>>]
        /\ i' = [i EXCEPT ![p] = IF ws = <<>> THEN 0 ELSE 1]
        /\ pc' = [pc EXCEPT ![p] = IF ws = <<>> THEN "phones" ELSE "word"]

\* phones.append(pred['results'][0]['pronunciation']) for each prediction:
\* the list of phones, or the IndexError of an empty results list.
GetPhonesOutcome(preds) ==
    IF \E k \in 1..Len(preds) : preds[k].results = <<>>
    THEN [raised |-> "IndexError", value |-> <<>>]
    ELSE [raised |-> None,
          value |-> [k \in 1..Len(preds) |->
                        preds[k].results[1].pronunciation]]

\* The frame of get_phones and predict is gone once get_phones has ended.
DropFrame(p) ==
    /\ pc' = [pc EXCEPT ![p] = "idle"]
    /\ words' = [words EXCEPT ![p] = <<>>]
    /\ i' = [i EXCEPT ![p] = 0]
    /\ output' = [output EXCEPT ![p] = NoOutput]
    /\ n_best' = [n_best EXCEPT ![p] = NoSearch]
    /\ total_posterior' = [total_posterior EXCEPT ![p] = 0]
    /\ n_variants' = [n_variants EXCEPT ![p] = 0]
    /\ stop' = [stop EXCEPT ![p] = "none"]
    /\ predictions' = [predictions EXCEPT ![p] = <<>>]

\* The caller calls get_phones(utt, translator_options) itself.
GetPhonesCall ==
    /\ mpc = "start"
    /\ call.fn = "get_phones"
    /\ GetPhonesEnter(Main, call.src[1], call.translator_options)
    /\ mpc' = "get_phones"
    /\ UNCHANGED <<call, ret, model, output, n_best, total_posterior,
                   n_variants, stop, batch>>

\* get_phones ends in the calling process: it returns phones or raises.
GetPhonesReturn ==
    /\ mpc = "get_phones"
    /\ pc[Main] = "phones"
    /\ ret' = GetPhonesOutcome(predictions[Main])
    /\ mpc' = IF ret'.raised = None THEN "done" ELSE "raised"
    /\ DropFrame(Main)
    /\ UNCHANGED <<call, globals, batch>>

(* ------------------------------ g2p_file ------------------------------ *)

\* '{}\t~ {} ~\n'.format(res[0].strip(), '\t'.join(res[1][:]))
FormatLine(line, phones) ==
    Str(Strip(line)) \o "\t~ " \o Join("\t", phones) \o " ~\n"

\* g2p_file sets the globals, makes the executor and submits
\* partial(get_phones, line) for every line of src_path; the worker
\* processes start as copies of the caller.
G2pSubmit ==
    /\ mpc = "start"
    /\ call.fn = "g2p_file"
    /\ TRANSLATOR_OPTIONS' =
          [p \in Procs |->
              IF p = Main \/ p <= call.n_jobs
              THEN SetGlobals(call.translator_options)
              ELSE TRANSLATOR_OPTIONS[p]]
    /\ futures' = [k \in 1..Len(call.src) |->
                      [line |-> call.src[k], state |-> "pending",
                       value |-> <<>>, exception |-> None]]
    /\ mpc' = "open"
    /\ UNCHANGED <<call, ret, model, locals, task, overtaken, results,
                   out_file>>

\* A free worker takes the oldest pending call and enters
\* get_phones(line): translator_options is left to its default, None.  The
\* workers are interchangeable: of the free ones the first takes the call.
WorkerTake(w) ==
    /\ w \in 1..call.n_jobs
    /\ pc[w] = "idle"
    /\ \A v \in 1..(w - 1) : pc[v] # "idle"
    /\ \E k \in 1..Len(futures) :
         /\ futures[k].state = "pending"
         /\ \A j \in 1..(k - 1) : futures[j].state # "pending"
         /\ futures' = [futures EXCEPT ![k].state = "running"]
         /\ task' = [task EXCEPT ![w] = k]
         /\ GetPhonesEnter(w, futures[k].line, NoOptions)
    /\ UNCHANGED <<call, mpc, ret, model, output, n_best, total_posterior,
                   n_variants, stop, overtaken, results, out_file>>

\* get_phones ends in a worker: its future holds the phones or the exception.
WorkerFinish(w) ==
    /\ w \in Workers
    /\ pc[w] = "phones"
    /\ LET r == GetPhonesOutcome(predictions[w]) IN
       futures' = [futures EXCEPT ![task[w]] =
                      [@ EXCEPT !.state = "finished", !.value = r.value,
                                !.exception = r.raised]]
    /\ overtaken' = (overtaken \/ \E j \in 1..(task[w] - 1) :
                                     futures[j].state # "finished")
    /\ task' = [task EXCEPT ![w] = 0]
    /\ DropFrame(w)
    /\ UNCHANGED <<call, mpc, ret, globals, results, out_file>>

\* with open(out_path, 'w') as out_file
G2pOpen ==
    /\ mpc = "open"
    /\ out_file' = [opened |-> TRUE, lines |-> <<>>]
    /\ mpc' = "collect"
    /\ UNCHANGED <<call, ret, globals, locals, task, futures, overtaken,
                   results>>

\* Mutant: results are taken as the futures complete (the last submitted
\* first among the finished ones), not in the order of futures.
NextFuture_AsCompleted ==
    LET ready == {k \in 1..Len(futures) :
                    /\ futures[k].state = "finished"
                    /\ \A j \in 1..Len(results) :
                          results[j] # [line |-> futures[k].line,
                                        phones |-> futures[k].value]}
    IN  IF ready = {} THEN Len(results) + 1
        ELSE CHOOSE k \in ready : \A j \in ready : j <= k

\* The future whose result() the list comprehension waits for next.
NextFuture == Len(results) + 1

\* results = [(future[0], future[1].result()) for future in futures ...]:
\* one future per step, in the order of futures; result() waits for the
\* future to finish and raises what get_phones raised.  get_phones never
\* returns None, so the filter of the comprehension drops nothing.
G2pCollect ==
    /\ mpc = "collect"
    /\ IF Len(results) = Len(futures)
       THEN /\ mpc' = "write"
            /\ UNCHANGED results
       ELSE LET fut == futures[NextFuture] IN
            /\ fut.state = "finished"
            /\ IF fut.exception # None
               THEN /\ mpc' = "raised"
                    /\ UNCHANGED results
               ELSE /\ results' = Append(results,
                           [line |-> fut.line, phones |-> fut.value])
                    /\ UNCHANGED mpc
    /\ UNCHANGED <<call, ret, globals, locals, task, futures, overtaken,
                   out_file>>

\* for res in results: out_file.write(...)
G2pWrite ==
    /\ mpc = "write"
    /\ IF Len(out_file.lines) < Len(results)
       THEN /\ out_file' = [out_file EXCEPT !.lines =
                  Append(@, FormatLine(results[Len(@) + 1].line,
                                       results[Len(@) + 1].phones))]
            /\ UNCHANGED mpc
       ELSE /\ mpc' = "done"
            /\ UNCHANGED out_file
    /\ UNCHANGED <<call, ret, globals, locals, task, futures, overtaken,
                   results>>

(* --------------------------- specification ---------------------------- *)

Next ==
    \/ GetPhonesCall
    \/ GetPhonesReturn
    \/ G2pSubmit
    \/ G2pOpen
    \/ G2pCollect
    \/ G2pWrite
    \/ \E p \in Procs : PredictInit(p)
    \/ \E p \in Procs : PredictLoop(p)
    \/ \E p \in Procs : PredictYield(p)
    \/ \E w \in Workers : WorkerTake(w)
    \/ \E w \in Workers : WorkerFinish(w)

Spec == Init /\ [][Next]_vars

\* A call of get_phones alone, in the calling process, which runs: the
\* loop of predict takes its next step.
GetPhonesInit == Init /\ call.fn = "get_phones"

GetPhonesNext ==
    \/ GetPhonesCall
    \/ PredictInit(Main)
    \/ PredictLoop(Main)
    \/ PredictYield(Main)
    \/ GetPhonesReturn

FairSpec ==
    GetPhonesInit /\ [][GetPhonesNext]_vars /\ WF_vars(PredictLoop(Main))

(* ------------------------------- claims ------------------------------- *)

Front(s) == SubSeq(s, 1, Len(s) - 1)

RECURSIVE SumPosteriors(_)
SumPosteriors(rs) ==
    IF rs = <<>> THEN 0 ELSE rs[1].posterior + SumPosteriors(Tail(rs))

\* The records of process p: the one being filled and the ones yielded.
Records(p) ==
    {output[p]} \cup {predictions[p][k] : k \in 1..Len(predictions[p])}

Hyp(posterior, pronunciation) ==
    [posterior |-> posterior, pronunciation |-> pronunciation]

\* The scenario of C1: the search of the word yields (-1, "k a b") and then
\* (-2, "k a p") and is then exhausted, logLikTotal is -1, variants_number
\* is 4 and variants_mass is 0.9; the collection for the word has ended.
C1_Scenario(p) ==
    /\ pc[p] = "yield"
    /\ n_best[p].left = <<"k", "a", "b">>
    /\ n_best[p].lls = <<-1, -2>>
    /\ n_best[p].logLikTotal = -1
    /\ n_best[p].ending = "StopIteration"
    /\ Opt(p).variants_number = 4
    /\ Opt(p).variants_mass = 900

\* C1, as claimed: in the scenario predict returns the two hypotheses
\* (1.0, "k a b"), (exp(-1), "k a p") and the loop stops because the search
\* is exhausted.
C1_TwoHypothesesThenExhausted ==
    \A p \in Procs :
        C1_Scenario(p) =>
            /\ output[p].results = <<Hyp(1000, "k a b"), Hyp(368, "k a p")>>
            /\ stop[p] = "exhausted"

\* C1, amended: in the scenario predict returns the single hypothesis
\* (1.0, "k a b"), and the loop stops because the mass limit is reached
\* (1.0 >= 0.9) before the second candidate is asked for.
C1_OneHypothesisThenMass ==
    \A p \in Procs :
        C1_Scenario(p) =>
            /\ output[p].results = <<Hyp(1000, "k a b")>>
            /\ stop[p] = "mass"
            /\ n_best[p].pos = 1

C1_Witness == \E p \in Procs : C1_Scenario(p)

\* C2: in every state, every record of predict holds at most
\* variants_number hypotheses.
C2_AtMostVariantsNumber ==
    \A p \in Procs : \A r \in Records(p) :
        Len(r.results) <= Opt(p).variants_number

\* The count limit ends a collection that neither mass nor exhaustion ended.
C2_Witness ==
    \E p \in Procs :
        /\ pc[p] = "yield"
        /\ stop[p] = "number"
        /\ Len(output[p].results) = Opt(p).variants_number
        /\ n_best[p].pos < Len(n_best[p].lls)

\* C3: in every non-empty hypothesis list the posteriors of all hypotheses
\* but the last sum to less than variants_mass.
C3_MassBelowLimitBeforeLast ==
    \A p \in Procs : \A r \in Records(p) :
        r.results # <<>> =>
            SumPosteriors(Front(r.results)) < Opt(p).variants_mass

\* The last of several hypotheses took the sum to the limit or above it.
C3_Witness ==
    \E p \in Procs :
        /\ pc[p] = "yield"
        /\ stop[p] = "mass"
        /\ Len(output[p].results) >= 2
        /\ SumPosteriors(output[p].results) >= Opt(p).variants_mass

\* C4: a step in which nBestInit fails for a word leaves predict at its
\* yield with an empty record for that word, and the yield of that record
\* appends it to the predictions and goes on to the next word, if any.
C4_InitFailureYieldsEmptyAndGoesOn ==
    [][\A p \in Procs :
        /\ (pc[p] = "word" /\ pc'[p] # "word" /\ stop'[p] = "init_failure")
              => /\ pc'[p] = "yield"
                 /\ output'[p] = [word |-> words[p][i[p]], results |-> <<>>]
        /\ (pc[p] = "yield" /\ pc'[p] # "yield" /\ stop[p] = "init_failure")
              => /\ predictions'[p] =
                       Append(predictions[p],
                              [word |-> words[p][i[p]], results |-> <<>>])
                 /\ i[p] < Len(words[p])
                       => (pc'[p] = "word" /\ i'[p] = i[p] + 1)
                 /\ i[p] = Len(words[p]) => pc'[p] = "phones"]_vars

\* The second word is up after the first failed at nBestInit.
C4_Witness ==
    \E p \in Procs :
        /\ pc[p] = "word"
        /\ i[p] = 2
        /\ stop[p] = "init_failure"
        /\ predictions[p] = <<[word |-> words[p][1], results |-> <<>>]>>

\* C10: a step in which nBestNext fails leaves predict at its yield with
\* the hypotheses collected so far unchanged; the record yielded is the
\* record collected; and a record at the yield is empty exactly when no
\* candidate was retrieved.
C10_LateFailureKeepsHypotheses ==
    [][\A p \in Procs :
        /\ (pc[p] = "loop" /\ stop'[p] = "failure")
              => /\ pc'[p] = "yield"
                 /\ output'[p] = output[p]
                 /\ Len(output'[p].results) = n_variants[p]
        /\ (pc[p] = "yield" /\ pc'[p] # "yield")
              => /\ predictions'[p] = Append(predictions[p], output[p])
                 /\ (output[p].results = <<>>) <=> (n_variants[p] = 0)]_vars

\* nBestNext failed after at least one hypothesis was appended.
C10_Witness ==
    \E p \in Procs :
        /\ pc[p] = "yield"
        /\ stop[p] = "failure"
        /\ Len(output[p].results) >= 1

\* C9: every collection loop ends, by exhaustion, by one of the two bounds
\* or -- the one case in which the search does not return -- by a failure
\* it raises, and never holds more than variants_number retrievals.
C9_LoopTerminates ==
    /\ \A p \in Procs :
          (pc[p] = "loop") ~>
              (/\ pc[p] = "yield"
               /\ stop[p] \in {"exhausted", "mass", "number", "failure"}
               /\ stop[p] = "failure" =>
                      n_best[p].ending = "TranslationFailure")
    /\ [](\A p \in Procs :
            /\ n_variants[p] <= Opt(p).variants_number
            /\ n_best[p].pos = n_variants[p])

\* A search that never runs out was stopped by a bound.
C9_Witness ==
    \E p \in Procs :
        /\ pc[p] = "yield"
        /\ n_best[p].ending = "more"
        /\ n_best[p].pos > Len(n_best[p].lls)
        /\ stop[p] \in {"mass", "number"}

\* C5, as claimed: whatever happens to the words of its lines, g2p_file
\* does not raise (nor, then, did a get_phones whose result it has taken).
C5_BatchDoesNotRaise ==
    call.fn = "g2p_file" => mpc # "raised"

\* C6: the k-th line written is the k-th input line with the phones of its
\* own future.
C6_OutputInInputOrder ==
    \A k \in 1..Len(out_file.lines) :
        /\ k <= Len(call.src)
        /\ out_file.lines[k] = FormatLine(call.src[k], futures[k].value)

\* Two different lines are written after the second finished first.
C6_Witness ==
    /\ mpc = "done"
    /\ overtaken
    /\ Len(out_file.lines) = 2
    /\ out_file.lines[1] # out_file.lines[2]

\* C7, as claimed: in a batch called with options O every worker's
\* collection runs under O's variants_number and variants_mass.
C7_WorkersUseCallersBounds ==
    (call.fn = "g2p_file" /\ call.translator_options # NoOptions) =>
        \A w \in Workers :
            pc[w] \in {"word", "loop", "yield"} =>
                /\ Opt(w).variants_number =
                      call.translator_options.variants_number
                /\ Opt(w).variants_mass =
                      call.translator_options.variants_mass
                /\ Len(output[w].results) <=
                      call.translator_options.variants_number

\* C8, as claimed: once g2p_file has ended, every line whose words all
\* yielded a hypothesis has its output line: the trimmed line and the
\* phones of its words.
C8_EveryGoodLineIsWritten ==
    (call.fn = "g2p_file" /\ mpc \in {"done", "raised"}) =>
        \A k \in 1..Len(futures) :
            (futures[k].state = "finished" /\ futures[k].exception = None)
                => \E j \in 1..Len(out_file.lines) :
                      out_file.lines[j] =
                          FormatLine(futures[k].line, futures[k].value)

====
